---- MODULE Spec2Model ----
\* Antigravity Code Review extension: the delivery probe of
\* createReviewRequestFile (extension.ts) and the skill-file lifecycle
\* (manifest store, install / removeOld at activation, teardown).
EXTENDS Integers, Sequences, FiniteSets, TLC

\* ----------------------------------------------------------------------
\* Delivery probe: createReviewRequestFile / tryCommands
\* ----------------------------------------------------------------------

\* The command identifiers of the candidate list, in list order, spelled
\* character by character so that String.includes can be computed.
configs ==
  <<
    \* antigravity.sendTextToChat
    <<"a","n","t","i","g","r","a","v","i","t","y",".","s","e","n","d","T","e","x","t","T","o","C","h","a","t">>,
    \* antigravity.sendPromptToAgentPanel
    <<"a","n","t","i","g","r","a","v","i","t","y",".","s","e","n","d","P","r","o","m","p","t","T","o","A","g","e","n","t","P","a","n","e","l">>,
    \* antigravity.agentSidePanel.open
    <<"a","n","t","i","g","r","a","v","i","t","y",".","a","g","e","n","t","S","i","d","e","P","a","n","e","l",".","o","p","e","n">>,
    \* antigravity.agentPanel.open
    <<"a","n","t","i","g","r","a","v","i","t","y",".","a","g","e","n","t","P","a","n","e","l",".","o","p","e","n">>,
    \* antigravity.toggleChatFocus
    <<"a","n","t","i","g","r","a","v","i","t","y",".","t","o","g","g","l","e","C","h","a","t","F","o","c","u","s">>,
    \* antigravity.prioritized.chat.open
    <<"a","n","t","i","g","r","a","v","i","t","y",".","p","r","i","o","r","i","t","i","z","e","d",".","c","h","a","t",".","o","p","e","n">>,
    \* antigravity.prioritized.chat.open
    <<"a","n","t","i","g","r","a","v","i","t","y",".","p","r","i","o","r","i","t","i","z","e","d",".","c","h","a","t",".","o","p","e","n">>,
    \* workbench.action.chat.open
    <<"w","o","r","k","b","e","n","c","h",".","a","c","t","i","o","n",".","c","h","a","t",".","o","p","e","n">>,
    \* workbench.action.chat.send
    <<"w","o","r","k","b","e","n","c","h",".","a","c","t","i","o","n",".","c","h","a","t",".","s","e","n","d">>,
    \* antigravity.askAI
    <<"a","n","t","i","g","r","a","v","i","t","y",".","a","s","k","A","I">>,
    \* antigravity.agent.submit
    <<"a","n","t","i","g","r","a","v","i","t","y",".","a","g","e","n","t",".","s","u","b","m","i","t">>,
    \* cascades.askAI
    <<"c","a","s","c","a","d","e","s",".","a","s","k","A","I">>
  >>

NumConfigs == Len(configs)

\* String.prototype.includes: sub occurs in s as a contiguous substring.
Includes(s, sub) ==
  \E k \in 0..(Len(s) - Len(sub)) : SubSeq(s, k + 1, k + Len(sub)) = sub

\* config.id.includes('focus') || config.id.includes('open') || config.id.includes('toggle')
IsOpenerId(id) ==
  \/ Includes(id, <<"f","o","c","u","s">>)
  \/ Includes(id, <<"o","p","e","n">>)
  \/ Includes(id, <<"t","o","g","g","l","e">>)

\* The classification of every candidate of the list.
IsOpener == [i \in 1..NumConfigs |-> IsOpenerId(configs[i])]

\* A loop without the early return: every candidate is tried.
StopsLoopNever(ok, opener) == FALSE

\* Any success ends the loop, an opener's included.
StopsLoopOnAnySuccess(ok, opener) == ok

\* The body of the try block after executeCommand resolved: an opener
\* continues with the next candidate, any other success returns true; a
\* throw is caught and the loop goes on.
StopsLoop(ok, opener) == ok /\ ~opener

ExhaustedResultTrue(matched) == TRUE

\* What tryCommands returns when the loop runs off the end of the list.
ExhaustedResult(matched) == matched

VARIABLES
  outcome,       \* outcome[i]: executeCommand of candidate i resolves (TRUE) or throws
  ppc,           \* position in createReviewRequestFile
  pidx,          \* index of the next candidate of the for loop
  lastMatched,   \* tryCommands' local
  plog,          \* lines appended to outputChannel, as <<tag, candidate>>
  invoked,       \* candidates passed to executeCommand, in order
  success,       \* value tryCommands returned: "pending", "true", "false"
  clipboard,     \* number of vscode.env.clipboard.writeText calls
  notice,        \* information message shown: "none", "paste", "submitted"
  channelShown,  \* outputChannel.show() was called
  reqFile,       \* this invocation's code-review-request.md exists on disk
  timers,        \* pending cleanup timers of this invocation
  tabOpen,       \* an editor tab shows the request document
  fired,         \* cleanup timer callbacks that have run
  consoleErrors, \* console.error calls of the cleanup callback
  round,         \* number of the current invocation of createReviewRequestFile
  writer,        \* invocation that wrote the request file last, 0 if none
  severityThreshold,  \* the setting severityThreshold
  additionalRules,    \* the setting additionalRulesPath: unset, or a file that is missing or present
  docSeverity,   \* severity block of the written request document
  promptPaths,   \* files the prompt built last tells the agent to read
  promptMissing  \* those of them that did not exist when the prompt was built

probeVars == <<outcome, ppc, pidx, lastMatched, plog, invoked, success,
               clipboard, notice, channelShown, reqFile, timers, tabOpen,
               fired, consoleErrors, round, writer, severityThreshold,
               additionalRules, docSeverity, promptPaths, promptMissing>>

\* State of the skill-file lifecycle (manifest store, activate, deactivate).
VARIABLES
  mfile,          \* content of MANIFEST_FILE
  mdir,           \* MANIFEST_DIR exists
  skillFiles,     \* skillFiles[w][name]: version copied into the file, 0 if absent
  dirs,           \* dirs[w]: the skill directory of workspace w exists
  other,          \* other[w]: the skill directory holds a file that is not ours
  reqDoc,         \* reqDoc[w]: <w>/code-review-request.md exists
  apc,            \* position of the extension instance
  aws,            \* workspaceFolder of the running instance
  aver,           \* extensionVersion of the running instance
  autoInstallSkills,    \* the setting as read by activate
  cleanupOnDeactivate,  \* the setting as read by deactivate
  lastRead,       \* value returned by the latest getManifest call
  readKind,       \* kind of the manifest file at that call
  raised,         \* exception that ended the latest handler, "none" if none
  didInstall,     \* installSkillFiles returned normally in this activation
  attempts,       \* deletion targets the latest teardown reached
  old,            \* files the destination held when this activation decided to install
  fresh           \* files of the destination copied by this activation's install so far

fsVars == <<mfile, mdir, skillFiles, dirs, other, reqDoc>>
lifeVars == <<mfile, mdir, skillFiles, dirs, other, reqDoc, apc, aws, aver,
              autoInstallSkills, cleanupOnDeactivate, lastRead, readKind,
              raised, didInstall, attempts, old, fresh>>

\* State of one invocation of a review command.
VARIABLES
  cmd,            \* the command invoked, "none" before
  cpc,            \* position in the command handler
  hasEditor,      \* vscode.window.activeTextEditor is set
  isRepo,         \* git rev-parse --is-inside-work-tree succeeds in cwd
  refs,           \* the refs that git rev-parse resolves in cwd
  diffBaseBranch, \* the setting diffBaseBranch
  answer,         \* what the input box or the error button returned
  errors,         \* showErrorMessage calls of the handler
  baseSha,        \* reviewChanges' local baseSha
  cmdRaised       \* an exception left the command handler

cmdVars == <<cmd, cpc, hasEditor, isRepo, refs, diffBaseBranch, answer,
             errors, baseSha, cmdRaised>>

\* State of the extension instances of several editor windows, one window
\* per workspace, each in its own extension host process.
VARIABLES
  wpc,            \* wpc[w]: position of the instance of the window on workspace w
  wread           \* wread[w]: the manifest that instance read in installSkillFiles

winVars == <<wpc, wread>>

vars == <<probeVars, lifeVars, cmdVars, winVars>>

ProbeIdle ==
  /\ ppc = "idle"
  /\ pidx = 1
  /\ lastMatched = FALSE
  /\ plog = <<>>
  /\ invoked = <<>>
  /\ success = "pending"
  /\ clipboard = 0
  /\ notice = "none"
  /\ channelShown = FALSE
  /\ reqFile = FALSE
  /\ timers = 0
  /\ tabOpen = FALSE
  /\ fired = 0
  /\ consoleErrors = 0
  /\ round = 1
  /\ writer = 0
  /\ docSeverity = "unwritten"
  /\ promptPaths = {}
  /\ promptMissing = {}

NumWorkspaces == 2
MaxVersion == 2
MaxFailures == 2               \* deletions that fail in one teardown

Workspaces == 1..NumWorkspaces
NoWs == 0                      \* vscode.workspace.workspaceFolders is empty
Versions == 1..MaxVersion      \* packageJSON.version of the running extension
NoVersion == 0                 \* extensionVersion: ''
Undefined == -1                \* a property the parsed value does not have

FileNames == {"SKILL.md", "code-review.md"}

\* The settings at their defaults (package.json: severityThreshold low,
\* additionalRulesPath empty).
DefaultSettings ==
  /\ severityThreshold = "low"
  /\ additionalRules = "unset"

\* const levels of getSeverityInstruction, line 227
levels == <<"info", "low", "medium", "high", "critical">>

\* Array.prototype.indexOf: the zero-based index of the first occurrence,
\* -1 if there is none.
IndexOf(seq, x) ==
  IF \E i \in 1..Len(seq) : seq[i] = x
    THEN (CHOOSE i \in 1..Len(seq) :
            seq[i] = x /\ \A j \in 1..(i - 1) : seq[j] # x) - 1
    ELSE -1

getSeverityInstructionFromLowest(threshold) ==
  IF IndexOf(levels, threshold) < 0 THEN "" ELSE threshold

\* getSeverityInstruction, lines 225-231: the empty string, or the block
\* '> **Severity Filter**: Only report issues of **<threshold>** severity or
\* above', represented by the threshold it names.
getSeverityInstruction(threshold) ==
  IF IndexOf(levels, threshold) <= 0 THEN "" ELSE threshold

\* buildAgentPrompt, lines 269-282: the prompt names SKILL.md and
\* code-review.md of getSkillPaths unconditionally, and the additional rules
\* if getSkillPaths returned a path for them (line 155: set and existing).
PromptPaths(rules) ==
  FileNames \cup (IF rules = "present" THEN {"additional-rules"} ELSE {})

\* fs.existsSync of a file the prompt names: a skill file lies in the
\* workspace's skill directory, or in the bundle's resources directory when
\* no folder is open (getSkillPaths, lines 146-149).
PathExists(n, w, files, bundled) ==
  IF n = "additional-rules"
    THEN TRUE
    ELSE IF w # NoWs THEN files[w][n] # 0 ELSE n \in bundled

\* The four commands registered by activate, lines 381, 441, 472 and 503.
Commands == {"changes", "activeFile", "byCommit", "staged"}

\* createReviewRequestFile up to the call of tryCommands: the request file is
\* written and shown, the prompt is built and announced in the log.
ProbeStart ==
  /\ UNCHANGED <<lifeVars, winVars>>
  /\ cpc = "create"
  /\ ppc = "idle"
  /\ reqFile' = TRUE
  /\ writer' = round
  /\ docSeverity' = getSeverityInstruction(severityThreshold)
  /\ tabOpen' = TRUE
  /\ promptPaths' = PromptPaths(additionalRules)
  /\ \E bundled \in SUBSET FileNames :
       promptMissing' = {n \in PromptPaths(additionalRules) :
                           ~PathExists(n, aws, skillFiles, bundled)}
  /\ plog' = Append(plog, <<"Starting", 0>>)
  /\ ppc' = "loop"
  /\ UNCHANGED <<outcome, pidx, lastMatched, invoked, success, clipboard,
                 notice, channelShown, timers, fired, consoleErrors, round,
                 severityThreshold, additionalRules>>
  /\ UNCHANGED cmdVars

\* What the handler of command c does with an exception thrown inside
\* createReviewRequestFile: reviewActiveFile (lines 441-469) has no try
\* block, the three others show the message as an error.
HandlerCatches(c) == c # "activeFile"

\* createReviewRequestFile when writeFileSync (line 290), openTextDocument
\* (line 291) or showTextDocument (line 292) throws: the function ends there,
\* before the probe and before setTimeout, and the exception reaches the
\* command handler.
ProbeStartFails(step) ==
  /\ UNCHANGED <<lifeVars, winVars>>
  /\ cpc = "create"
  /\ ppc = "idle"
  /\ reqFile' = (reqFile \/ step # "write")
  /\ writer' = IF step # "write" THEN round ELSE writer
  /\ docSeverity' = IF step # "write"
                      THEN getSeverityInstruction(severityThreshold)
                      ELSE docSeverity
  /\ ppc' = "threw"
  /\ cpc' = "ended"
  /\ IF HandlerCatches(cmd)
       THEN errors' = errors + 1 /\ UNCHANGED cmdRaised
       ELSE cmdRaised' = TRUE /\ UNCHANGED errors
  /\ UNCHANGED <<outcome, pidx, lastMatched, plog, invoked, success, clipboard,
                 notice, channelShown, timers, tabOpen, fired, consoleErrors,
                 round, severityThreshold, additionalRules, promptPaths,
                 promptMissing>>
  /\ UNCHANGED <<cmd, hasEditor, isRepo, refs, diffBaseBranch, answer, baseSha>>

\* One iteration of the for loop of tryCommands: the candidate is announced
\* and invoked; its outcome is logged; a success that is not an opener
\* returns true, anything else goes on to the next candidate, and the end of
\* the list returns lastMatched.
ProbeStep ==
  /\ UNCHANGED <<lifeVars, winVars>>
  /\ UNCHANGED cmdVars
  /\ ppc = "loop"
  /\ pidx <= NumConfigs
  /\ LET i == pidx
         ok == outcome[i]
         attempted == Append(plog, <<"Attempting", i>>)
         matched == IF ok THEN TRUE ELSE lastMatched
     IN /\ invoked' = Append(invoked, i)
        /\ plog' = Append(attempted, <<IF ok THEN "SUCCESS" ELSE "FAILED", i>>)
        /\ lastMatched' = matched
        /\ IF StopsLoop(ok, IsOpener[i])
             THEN /\ ppc' = "returned"
                  /\ success' = "true"
                  /\ pidx' = pidx
             ELSE /\ pidx' = i + 1
                  /\ IF i = NumConfigs
                       THEN /\ ppc' = "returned"
                            /\ success' = IF ExhaustedResult(matched)
                                            THEN "true" ELSE "false"
                       ELSE UNCHANGED <<ppc, success>>
  /\ UNCHANGED <<outcome, clipboard, notice, channelShown, reqFile, timers,
                 tabOpen, fired, consoleErrors, round, writer,
                 severityThreshold, additionalRules, docSeverity, promptPaths,
                 promptMissing>>

\* After tryCommands: the fallback or the submitted notice, then the cleanup
\* timer is scheduled and the command handler returns.
ProbeFinish ==
  /\ UNCHANGED <<lifeVars, winVars>>
  /\ ppc = "returned"
  /\ IF success = "false"
       THEN /\ channelShown' = TRUE
            /\ clipboard' = clipboard + 1
            /\ notice' = "paste"
       ELSE /\ notice' = "submitted"
            /\ UNCHANGED <<channelShown, clipboard>>
  /\ timers' = timers + 1
  /\ ppc' = "done"
  /\ cpc' = "ended"
  /\ UNCHANGED <<outcome, pidx, lastMatched, plog, invoked, success, reqFile,
                 tabOpen, fired, consoleErrors, round, writer,
                 severityThreshold, additionalRules, docSeverity, promptPaths,
                 promptMissing>>
  /\ UNCHANGED <<cmd, hasEditor, isRepo, refs, diffBaseBranch, answer,
                 errors, baseSha, cmdRaised>>

\* What can go wrong inside the cleanup callback: tabGroups.close rejects,
\* or unlinkSync throws.
CleanupFailures == {"none", "close", "unlink"}

CleanupRunKeepsTab(tab, file, fail) ==
  [tab |-> tab, file |-> IF fail = "none" THEN FALSE ELSE file,
   deleted |-> file /\ fail = "none", error |-> fail # "none" /\ file]

\* The body of the setTimeout callback, lines 361-374: every tab on the
\* request document is closed, then the file is deleted if it exists; a
\* throw of either step skips the rest and is caught and written to the
\* console.
CleanupRun(tab, file, fail) ==
  IF tab /\ fail = "close"
    THEN [tab |-> tab, file |-> file, deleted |-> FALSE, error |-> TRUE]
    ELSE IF file /\ fail = "unlink"
      THEN [tab |-> FALSE, file |-> file, deleted |-> FALSE, error |-> TRUE]
      ELSE [tab |-> FALSE, file |-> FALSE, deleted |-> file, error |-> FALSE]

\* The setTimeout callback of lines 360-375 runs, once per timer.
CleanupTimer ==
  /\ UNCHANGED <<lifeVars, winVars>>
  /\ UNCHANGED cmdVars
  /\ timers > 0
  /\ timers' = timers - 1
  /\ fired' = fired + 1
  /\ \E fail \in CleanupFailures :
       LET r == CleanupRun(tabOpen, reqFile, fail)
       IN /\ tabOpen' = r.tab
          /\ reqFile' = r.file
          /\ plog' = IF r.deleted THEN Append(plog, <<"Cleanup", 0>>) ELSE plog
          /\ consoleErrors' = IF r.error THEN consoleErrors + 1 ELSE consoleErrors
  /\ UNCHANGED <<outcome, ppc, pidx, lastMatched, invoked, success,
                 clipboard, notice, channelShown, round, writer,
                 severityThreshold, additionalRules, docSeverity, promptPaths,
                 promptMissing>>

MaxInvocations == 2             \* invocations of createReviewRequestFile

\* A further review command of the same workspace reaches its call of
\* createReviewRequestFile while a cleanup timer of an earlier invocation is
\* pending: the function starts again with fresh locals, on the same
\* reviewFilePath, the same output channel and the same tabs.
InvokeAgain ==
  /\ ppc = "done"
  /\ timers > 0
  /\ round < MaxInvocations
  /\ UNCHANGED <<lifeVars, winVars>>
  /\ round' = round + 1
  /\ ppc' = "idle"
  /\ cpc' = "create"
  /\ pidx' = 1
  /\ lastMatched' = FALSE
  /\ invoked' = <<>>
  /\ success' = "pending"
  /\ UNCHANGED <<outcome, plog, clipboard, notice, channelShown, reqFile,
                 timers, tabOpen, fired, consoleErrors, writer,
                 severityThreshold, additionalRules, docSeverity, promptPaths,
                 promptMissing>>
  /\ UNCHANGED <<cmd, hasEditor, isRepo, refs, diffBaseBranch, answer,
                 errors, baseSha, cmdRaised>>

\* ----------------------------------------------------------------------
\* Skill-file lifecycle: manifest store, activate, deactivate
\* ----------------------------------------------------------------------

\* path.join(workspacePath, '.agents', 'skills', 'code-review')
DestDir(w) == <<w, ".agents", "skills", "code-review">>

\* path.resolve(skillDir, '..', '..', '..')
WsRoot(skillDir) == SubSeq(skillDir, 1, Len(skillDir) - 3)[1]

\* Array.prototype.includes on installedPaths
PathsInclude(paths, d) == \E k \in 1..Len(paths) : paths[k] = d

\* { installedPaths: [], extensionVersion: '' }
EmptyManifest == [kind |-> "valid", paths |-> <<>>, version |-> NoVersion]

\* Contents of MANIFEST_FILE. kind: "absent" (no file), "unreadable"
\* (readFileSync throws), "garbage" (JSON.parse throws), "null" (the JSON
\* text null), "noPaths" (a JSON object without installedPaths, such as {}),
\* "valid" (an object of the manifest's shape).
ManifestFile(kind, paths, version) ==
  [kind |-> kind, paths |-> paths, version |-> version]

OwnKinds == {"absent", "unreadable", "garbage"}
ForeignKinds == {"null", "noPaths"}

\* getManifest: the parsed content of the file when it exists, can be read
\* and parses; the empty default when it is absent or the try block throws.
getManifest(f) ==
  IF f.kind \in {"absent", "unreadable", "garbage"} THEN EmptyManifest ELSE f

\* manifest.extensionVersion of a value getManifest returned (not null).
ExtensionVersionOf(m) == IF m.kind = "valid" THEN m.version ELSE Undefined

\* The update always pushes.
AddPathAlways(paths, d) == Append(paths, d)

\* The update never records the destination.
AddPathNever(paths, d) == paths

\* The update starts the list over.
AddPathReplacing(paths, d) == <<d>>

\* if (!manifest.installedPaths.includes(destDir)) push(destDir)
AddPath(paths, d) == IF PathsInclude(paths, d) THEN paths ELSE Append(paths, d)

\* The decision when only the version is compared.
NeedsInstallVersionOnly(skillExists, recorded, v) == recorded # v

\* needsInstall = !skillExists || manifest.extensionVersion !== extensionVersion
NeedsInstall(skillExists, recorded, v) == ~skillExists \/ recorded # v

\* removeOld that forgets the style guide.
RemoveOldTargetsSkillOnly == <<"SKILL.md">>

\* The files removeOldSkillFiles unlinks, in order.
RemoveOldTargets == <<"SKILL.md", "code-review.md">>

\* A teardown that ignores the setting.
CleanupSkippedNever(enabled) == FALSE

\* if (!cleanupEnabled) return
CleanupSkipped(enabled) == ~enabled

NoRead == [kind |-> "none", paths |-> <<>>, version |-> NoVersion]

\* The instance is not running and its locals hold nothing.
InstanceOff ==
  /\ apc = "off"
  /\ aws = NoWs
  /\ aver = NoVersion
  /\ autoInstallSkills = TRUE
  /\ cleanupOnDeactivate = TRUE
  /\ lastRead = NoRead
  /\ readKind = "none"
  /\ raised = "none"
  /\ didInstall = FALSE
  /\ attempts = {}
  /\ old = {}
  /\ fresh = {}

\* A file system before the extension ever ran: no skill file, any manifest
\* state of the given kinds, leftover request documents, foreign files.
FsInit(kinds) ==
  /\ mfile \in {ManifestFile(k, <<>>, NoVersion) : k \in kinds}
  /\ mdir \in BOOLEAN
  /\ (mfile.kind # "absent" => mdir)
  /\ skillFiles = [w \in Workspaces |-> [n \in FileNames |-> 0]]
  /\ dirs \in [Workspaces -> BOOLEAN]
  /\ other \in [Workspaces -> BOOLEAN]
  /\ \A w \in Workspaces : other[w] => dirs[w]
  /\ reqDoc \in [Workspaces -> BOOLEAN]

\* The locals of an instance whose handler ended the activation.
Stopped ==
  /\ apc' = "off"
  /\ aws' = NoWs
  /\ aver' = NoVersion
  /\ autoInstallSkills' = TRUE
  /\ didInstall' = FALSE
  /\ old' = {}
  /\ fresh' = {}

\* No review command has been invoked.
CmdIdle ==
  /\ cmd = "none"
  /\ cpc = "idle"
  /\ hasEditor = FALSE
  /\ isRepo = FALSE
  /\ refs = {}
  /\ diffBaseBranch = "auto"
  /\ answer = "none"
  /\ errors = 0
  /\ baseSha = "none"
  /\ cmdRaised = FALSE

\* No window but the one of the instance above runs the extension.
WindowsOff ==
  /\ wpc = [w \in Workspaces |-> "off"]
  /\ wread = [w \in Workspaces |-> NoRead]

\* activate, lines 95-121: the decision whether to install.
Activate(w, v, auto) ==
  /\ UNCHANGED <<probeVars, cmdVars, winVars>>
  /\ apc = "off"
  /\ attempts' = {}
  /\ cleanupOnDeactivate' = TRUE
  /\ UNCHANGED fsVars
  /\ IF w = NoWs \/ ~auto
       THEN /\ apc' = "active"
            /\ aws' = w
            /\ aver' = v
            /\ autoInstallSkills' = auto
            /\ raised' = "none"
            /\ lastRead' = NoRead
            /\ readKind' = "none"
            /\ UNCHANGED <<didInstall, old, fresh>>
       ELSE LET m == getManifest(mfile)
                skillExists == skillFiles[w]["SKILL.md"] # 0
            IN /\ lastRead' = m
               /\ readKind' = mfile.kind
               /\ IF skillExists /\ m.kind = "null"
                    THEN \* manifest.extensionVersion of null
                         /\ raised' = "TypeError"
                         /\ Stopped
                    ELSE /\ raised' = "none"
                         /\ aws' = w
                         /\ aver' = v
                         /\ autoInstallSkills' = auto
                         /\ didInstall' = FALSE
                         /\ fresh' = {}
                         /\ IF NeedsInstall(skillExists, ExtensionVersionOf(m), v)
                              THEN /\ apc' = "removeOld"
                                   /\ old' = {n \in FileNames : skillFiles[w][n] # 0}
                              ELSE /\ apc' = "active"
                                   /\ old' = {}

\* The unlink loop of removeOldSkillFiles from target k on: an unlinkSync of
\* a file in failing throws and ends the function.
RECURSIVE RemoveOldFrom(_, _, _, _)
RemoveOldFrom(k, targets, present, failing) ==
  IF k > Len(targets)
    THEN [present |-> present, raised |-> FALSE]
    ELSE IF targets[k] \in present
      THEN IF targets[k] \in failing
             THEN [present |-> present, raised |-> TRUE]
             ELSE RemoveOldFrom(k + 1, targets, present \ {targets[k]}, failing)
      ELSE RemoveOldFrom(k + 1, targets, present, failing)

\* removeOldSkillFiles, lines 80-93, called at line 113.
RemoveOld ==
  /\ UNCHANGED <<probeVars, cmdVars, winVars>>
  /\ apc = "removeOld"
  /\ \E failing \in SUBSET {n \in FileNames : skillFiles[aws][n] # 0} :
       LET present == {n \in FileNames : skillFiles[aws][n] # 0}
           r == RemoveOldFrom(1, RemoveOldTargets, present, failing)
       IN /\ skillFiles' = [skillFiles EXCEPT ![aws] =
                              [n \in FileNames |->
                                 IF n \in r.present THEN skillFiles[aws][n] ELSE 0]]
          /\ IF r.raised
               THEN /\ raised' = "unlink"
                    /\ Stopped
               ELSE /\ apc' = "copySkill"
                    /\ UNCHANGED <<aws, aver, autoInstallSkills, didInstall,
                                   old, fresh, raised>>
  /\ UNCHANGED <<mfile, mdir, dirs, other, reqDoc, cleanupOnDeactivate,
                 lastRead, readKind, attempts>>

\* installSkillFiles, lines 46-59: the destination directory is created and
\* SKILL.md is copied when the bundle has it.
InstallCopySkill ==
  /\ UNCHANGED <<probeVars, cmdVars, winVars>>
  /\ apc = "copySkill"
  /\ dirs' = [dirs EXCEPT ![aws] = TRUE]
  /\ \E srcExists \in BOOLEAN :
       IF srcExists
         THEN /\ skillFiles' = [skillFiles EXCEPT ![aws]["SKILL.md"] = aver]
              /\ fresh' = fresh \cup {"SKILL.md"}
         ELSE UNCHANGED <<skillFiles, fresh>>
  /\ apc' = "copyGuide"
  /\ UNCHANGED <<old, mfile, mdir, other, reqDoc, aws, aver, autoInstallSkills,
                 cleanupOnDeactivate, lastRead, readKind, raised, didInstall,
                 attempts>>

\* installSkillFiles, lines 61-65: code-review.md is copied when the bundle
\* has it.
InstallCopyGuide ==
  /\ UNCHANGED <<probeVars, cmdVars, winVars>>
  /\ apc = "copyGuide"
  /\ \E srcExists \in BOOLEAN :
       IF srcExists
         THEN /\ skillFiles' = [skillFiles EXCEPT ![aws]["code-review.md"] = aver]
              /\ fresh' = fresh \cup {"code-review.md"}
         ELSE UNCHANGED <<skillFiles, fresh>>
  /\ apc' = "manifest"
  /\ UNCHANGED <<old, mfile, mdir, dirs, other, reqDoc, aws, aver,
                 autoInstallSkills, cleanupOnDeactivate, lastRead, readKind,
                 raised, didInstall, attempts>>

\* installSkillFiles, lines 67-73: the manifest is read, updated and saved
\* (setManifest creates MANIFEST_DIR and overwrites the file).
InstallManifest ==
  /\ UNCHANGED <<probeVars, cmdVars, winVars>>
  /\ apc = "manifest"
  /\ LET m == getManifest(mfile)
     IN /\ lastRead' = m
        /\ readKind' = mfile.kind
        /\ IF m.kind # "valid"
             THEN \* manifest.installedPaths.includes of null or undefined
                  /\ raised' = "TypeError"
                  /\ Stopped
                  /\ UNCHANGED <<mfile, mdir>>
             ELSE /\ mfile' = ManifestFile("valid",
                                           AddPath(m.paths, DestDir(aws)), aver)
                  /\ mdir' = TRUE
                  /\ apc' = "active"
                  /\ didInstall' = TRUE
                  /\ old' = {}
                  /\ fresh' = {}
                  /\ UNCHANGED <<aws, aver, autoInstallSkills, raised>>
  /\ UNCHANGED <<skillFiles, dirs, other, reqDoc, cleanupOnDeactivate, attempts>>

\* A deletion the teardown can reach: a skill file, a skill directory, a
\* request document, the manifest file, the manifest directory.
Target(t, w, n) == [t |-> t, w |-> w, n |-> n]

\* The deletion targets of one recorded directory, existing or not.
DirTargets(skillDir) ==
  {Target("file", skillDir[1], n) : n \in FileNames}
    \cup {Target("dir", skillDir[1], ""), Target("req", WsRoot(skillDir), "")}

\* deactivate, lines 553-595: the body of the loop for one recorded
\* directory. st holds the files, directories and request documents so far
\* and the targets reached; a deletion in failing throws and is caught.
TeardownDir(st, skillDir, failing) ==
  LET w == skillDir[1]
      gone(n) == st.files[w][n] # 0 /\ Target("file", w, n) \notin failing
      files1 == [st.files EXCEPT ![w] =
                   [n \in FileNames |-> IF gone(n) THEN 0 ELSE st.files[w][n]]]
      empty == (\A n \in FileNames : files1[w][n] = 0) /\ ~other[w]
      dirs1 == IF st.dirs[w] /\ empty /\ Target("dir", w, "") \notin failing
                 THEN [st.dirs EXCEPT ![w] = FALSE] ELSE st.dirs
      r == WsRoot(skillDir)
      req1 == IF st.req[r] /\ Target("req", r, "") \notin failing
                THEN [st.req EXCEPT ![r] = FALSE] ELSE st.req
  IN [files |-> files1, dirs |-> dirs1, req |-> req1,
      reached |-> st.reached \cup DirTargets(skillDir)]

\* for (const skillDir of manifest.installedPaths)
RECURSIVE TeardownPaths(_, _, _)
TeardownPaths(st, paths, failing) ==
  IF paths = <<>>
    THEN st
    ELSE TeardownPaths(TeardownDir(st, Head(paths), failing), Tail(paths), failing)

\* The deletions of a teardown over paths that find something to delete.
Deletable(paths) ==
  {t \in UNION {DirTargets(paths[k]) : k \in 1..Len(paths)} :
     \/ t.t = "file" /\ skillFiles[t.w][t.n] # 0
     \/ t.t = "dir" /\ dirs[t.w]
     \/ t.t = "req" /\ reqDoc[t.w]}
    \cup (IF mfile.kind # "absent" THEN {Target("manifest", NoWs, "")} ELSE {})
    \cup (IF mdir THEN {Target("mdir", NoWs, "")} ELSE {})

\* The sets of deletions that fail in one teardown.
FailurePatterns(targets) ==
  {f \in SUBSET targets : Cardinality(f) <= MaxFailures}

\* deactivate, lines 540-551: the setting is read; with cleanup disabled the
\* function returns, otherwise the manifest is read.
Deactivate(enabled) ==
  /\ UNCHANGED <<probeVars, cmdVars, winVars>>
  /\ apc = "active"
  /\ cleanupOnDeactivate' = enabled
  /\ raised' = "none"
  /\ attempts' = {}
  /\ aws' = NoWs
  /\ aver' = NoVersion
  /\ autoInstallSkills' = TRUE
  /\ didInstall' = FALSE
  /\ old' = {}
  /\ fresh' = {}
  /\ UNCHANGED fsVars
  /\ IF CleanupSkipped(enabled)
       THEN /\ apc' = "off"
            /\ lastRead' = NoRead
            /\ readKind' = "none"
       ELSE /\ apc' = "teardown"
            /\ lastRead' = getManifest(mfile)
            /\ readKind' = mfile.kind

\* deactivate, lines 552-608, for a manifest m of the manifest's shape: the
\* file system the loop and the removal of the manifest file and directory
\* leave when the deletions of failing throw, and the deletions reached.
TeardownFs(m, failing) ==
  LET st == TeardownPaths([files |-> skillFiles, dirs |-> dirs,
                           req |-> reqDoc, reached |-> {}],
                          m.paths, failing)
      unlinked == mfile.kind # "absent"
                  /\ Target("manifest", NoWs, "") \notin failing
      mgone == mfile.kind = "absent" \/ unlinked
  IN [files |-> st.files, dirs |-> st.dirs, req |-> st.req,
      mfile |-> IF unlinked THEN ManifestFile("absent", <<>>, NoVersion)
                            ELSE mfile,
      mdir |-> IF mdir /\ mgone /\ Target("mdir", NoWs, "") \notin failing
                 THEN FALSE ELSE mdir,
      attempts |-> st.reached
                     \cup {Target("manifest", NoWs, "")}
                     \cup (IF mgone THEN {Target("mdir", NoWs, "")} ELSE {})]

\* deactivate, lines 552-610: the loop over manifest.installedPaths, then
\* the manifest file and its directory.
Teardown ==
  /\ UNCHANGED <<probeVars, cmdVars, winVars>>
  /\ apc = "teardown"
  /\ apc' = "off"
  /\ lastRead' = NoRead
  /\ readKind' = "none"
  /\ UNCHANGED <<other, aws, aver, autoInstallSkills, cleanupOnDeactivate,
                 didInstall, old, fresh>>
  /\ IF lastRead.kind # "valid"
       THEN \* manifest.installedPaths of null, or iterating undefined
            /\ raised' = "TypeError"
            /\ attempts' = {}
            /\ UNCHANGED <<mfile, mdir, skillFiles, dirs, reqDoc>>
       ELSE \E failing \in FailurePatterns(Deletable(lastRead.paths)) :
              LET r == TeardownFs(lastRead, failing)
              IN /\ raised' = "none"
                 /\ skillFiles' = r.files
                 /\ dirs' = r.dirs
                 /\ reqDoc' = r.req
                 /\ attempts' = r.attempts
                 /\ mfile' = r.mfile
                 /\ mdir' = r.mdir

\* uninstall.ts, lines 38-41 and 44-47: an unlinkSync that is not caught
\* where it stands. A file that is there and in failing throws.
UninstallUnlinkFile(st, w, n, failing) ==
  IF st.thrown
    THEN st
    ELSE LET reached == st.reached \cup {Target("file", w, n)}
         IN IF st.files[w][n] = 0
              THEN [st EXCEPT !.reached = reached]
              ELSE IF Target("file", w, n) \in failing
                THEN [st EXCEPT !.reached = reached, !.thrown = TRUE]
                ELSE [st EXCEPT !.reached = reached, !.files[w][n] = 0]

\* uninstall.ts, lines 50-58: readdirSync and rmdirSync in their own try.
UninstallRemoveDir(st, w, failing) ==
  IF st.thrown
    THEN st
    ELSE LET reached == st.reached \cup {Target("dir", w, "")}
             empty == (\A n \in FileNames : st.files[w][n] = 0) /\ ~other[w]
         IN IF st.dirs[w] /\ empty /\ Target("dir", w, "") \notin failing
              THEN [st EXCEPT !.reached = reached, !.dirs[w] = FALSE]
              ELSE [st EXCEPT !.reached = reached]

\* uninstall.ts, lines 62-67: the request document of the workspace root.
UninstallUnlinkRequest(st, r, failing) ==
  IF st.thrown
    THEN st
    ELSE LET reached == st.reached \cup {Target("req", r, "")}
         IN IF ~st.req[r]
              THEN [st EXCEPT !.reached = reached]
              ELSE IF Target("req", r, "") \in failing
                THEN [st EXCEPT !.reached = reached, !.thrown = TRUE]
                ELSE [st EXCEPT !.reached = reached, !.req[r] = FALSE]

\* uninstall.ts, lines 33-68: the body of the loop for one recorded directory.
UninstallDir(st, skillDir, failing) ==
  LET w == skillDir[1]
      s1 == UninstallUnlinkFile(st, w, "SKILL.md", failing)
      s2 == UninstallUnlinkFile(s1, w, "code-review.md", failing)
      s3 == UninstallRemoveDir(s2, w, failing)
  IN UninstallUnlinkRequest(s3, WsRoot(skillDir), failing)

\* for (const skillDir of manifest.installedPaths), uninstall.ts line 33
RECURSIVE UninstallPaths(_, _, _)
UninstallPaths(st, paths, failing) ==
  IF paths = <<>>
    THEN st
    ELSE UninstallPaths(UninstallDir(st, Head(paths), failing), Tail(paths), failing)

\* removeSkillFiles, lines 28-89: the file system the function leaves when
\* the deletions of failing throw, and the deletions reached. Without a
\* manifest file nothing is done; a manifest that cannot be read or parsed,
\* or is not of the manifest's shape, throws into the catch of line 84.
UninstallFs(failing) ==
  IF mfile.kind # "valid"
    THEN [files |-> skillFiles, dirs |-> dirs, req |-> reqDoc,
          mfile |-> mfile, mdir |-> mdir, attempts |-> {}]
    ELSE LET st == UninstallPaths([files |-> skillFiles, dirs |-> dirs,
                                   req |-> reqDoc, reached |-> {},
                                   thrown |-> FALSE],
                                  mfile.paths, failing)
             unlinked == ~st.thrown /\ Target("manifest", NoWs, "") \notin failing
         IN [files |-> st.files, dirs |-> st.dirs, req |-> st.req,
             mfile |-> IF unlinked THEN ManifestFile("absent", <<>>, NoVersion)
                                   ELSE mfile,
             mdir |-> IF unlinked /\ Target("mdir", NoWs, "") \notin failing
                        THEN FALSE ELSE mdir,
             attempts |-> st.reached
                 \cup (IF st.thrown THEN {} ELSE {Target("manifest", NoWs, "")})
                 \cup (IF unlinked THEN {Target("mdir", NoWs, "")} ELSE {})]

\* removeSkillFiles of uninstall.ts, lines 24-92, run by the vscode:uninstall
\* hook once the extension no longer runs. Everything sits in one try block:
\* the first throw ends the cleanup and is logged by the catch at line 84.
Uninstall ==
  /\ UNCHANGED <<probeVars, cmdVars, winVars>>
  /\ apc = "off"
  /\ apc' = "uninstalled"
  /\ raised' = "none"
  /\ lastRead' = NoRead
  /\ readKind' = "none"
  /\ UNCHANGED <<other, aws, aver, autoInstallSkills, cleanupOnDeactivate,
                 didInstall, old, fresh>>
  /\ \E failing \in (IF mfile.kind = "valid"
                       THEN FailurePatterns(Deletable(mfile.paths))
                       ELSE {{}}) :
       LET r == UninstallFs(failing)
       IN /\ skillFiles' = r.files
          /\ dirs' = r.dirs
          /\ reqDoc' = r.req
          /\ attempts' = r.attempts
          /\ mfile' = r.mfile
          /\ mdir' = r.mdir

\* ----------------------------------------------------------------------
\* Review commands
\* ----------------------------------------------------------------------

\* The refs the commands hand to git rev-parse: HEAD, the remote-tracking
\* branch origin/<branch>, the previous commit and a configured base.
Refs == {"HEAD", "origin/branch", "HEAD~1", "main"}

\* The values of the setting diffBaseBranch: auto or a ref.
BaseSettings == {"auto", "main"}

\* headSha, the trimmed output of git rev-parse HEAD (line 392).
HeadSha == "sha(HEAD)"

\* The ref sets a repository can have: HEAD~1 resolves only if HEAD does.
RefSets == {r \in SUBSET Refs : "HEAD~1" \in r => "HEAD" \in r}

ResolveBaseUnvalidated(configuredBase, resolves) ==
  IF configuredBase = "auto"
    THEN IF "origin/branch" \in resolves
           THEN "origin/branch"
           ELSE IF "HEAD~1" \in resolves THEN "HEAD~1" ELSE HeadSha
    ELSE configuredBase

\* reviewChanges, lines 396-412: the base of the diff.
ResolveBase(configuredBase, resolves) ==
  IF configuredBase = "auto"
    THEN IF "origin/branch" \in resolves
           THEN "origin/branch"
           ELSE IF "HEAD~1" \in resolves THEN "HEAD~1" ELSE HeadSha
    ELSE IF configuredBase \in resolves
           THEN configuredBase
           ELSE IF "HEAD~1" \in resolves THEN "HEAD~1" ELSE HeadSha

PreconditionMetAlways(c, w, editor, repo) == TRUE

\* The guards at the head of the four handlers (lines 382-385, 442-443,
\* 473-474, 504-507): reviewActiveFile needs an editor, the others a
\* workspace folder, reviewChanges and reviewStagedChanges a git repository.
PreconditionMet(c, w, editor, repo) ==
  IF c = "activeFile"
    THEN editor
    ELSE /\ w # NoWs
         /\ c \in {"changes", "staged"} => repo

DismissedNever(c, ans) == FALSE

\* The test after showInputBox: reviewChanges returns on undefined (line
\* 419), reviewByCommit on any falsy value (line 482).
Dismissed(c, ans) ==
  IF c = "changes"
    THEN ans = "undefined"
    ELSE ans \in {"undefined", "empty"}

\* A command handler from its invocation to its first await or its return.
Invoke(c, editor, repo, resolves, base) ==
  /\ apc = "active"
  /\ cpc = "idle"
  /\ UNCHANGED <<lifeVars, winVars>>
  /\ UNCHANGED probeVars
  /\ aws = NoWs => ~repo
  /\ ~repo => resolves = {}
  /\ cmd' = c
  /\ hasEditor' = editor
  /\ isRepo' = repo
  /\ refs' = resolves
  /\ diffBaseBranch' = base
  /\ UNCHANGED <<answer, cmdRaised>>
  /\ IF ~PreconditionMet(c, aws, editor, repo)
       THEN \* showErrorMessage; reviewChanges offers to initialise git
            /\ errors' = errors + 1
            /\ cpc' = IF c = "changes" /\ aws # NoWs THEN "askInit" ELSE "ended"
            /\ UNCHANGED baseSha
       ELSE IF c \in {"changes", "staged"} /\ "HEAD" \notin resolves
         THEN \* git rev-parse HEAD throws (lines 392, 512), caught at 435, 527
              /\ errors' = errors + 1
              /\ cpc' = "ended"
              /\ UNCHANGED baseSha
         ELSE /\ UNCHANGED errors
              /\ baseSha' = IF c = "changes"
                              THEN ResolveBase(base, resolves) ELSE baseSha
              /\ cpc' = IF c \in {"changes", "byCommit"} THEN "prompt" ELSE "create"

\* reviewChanges, lines 386-388: the answer to 'Not a Git repository.' and
\* git init, which runs outside any try block.
AskInit(choice, initFails) ==
  /\ cpc = "askInit"
  /\ UNCHANGED <<lifeVars, winVars>>
  /\ UNCHANGED probeVars
  /\ answer' = choice
  /\ cpc' = "ended"
  /\ IF choice = "Initialize Git"
       THEN /\ isRepo' = ~initFails
            /\ cmdRaised' = initFails
       ELSE UNCHANGED <<isRepo, cmdRaised>>
  /\ UNCHANGED <<cmd, hasEditor, refs, diffBaseBranch, errors, baseSha>>

\* reviewChanges, lines 414-419, and reviewByCommit, lines 476-482: the
\* input box returns.
Prompt(ans) ==
  /\ cpc = "prompt"
  /\ UNCHANGED <<lifeVars, winVars>>
  /\ UNCHANGED probeVars
  /\ answer' = ans
  /\ cpc' = IF Dismissed(cmd, ans) THEN "ended" ELSE "create"
  /\ UNCHANGED <<cmd, hasEditor, isRepo, refs, diffBaseBranch, errors,
                 baseSha, cmdRaised>>

\* ----------------------------------------------------------------------
\* Several windows: one extension instance per workspace, all of the same
\* version, sharing the manifest file
\* ----------------------------------------------------------------------

\* activate of the window on workspace w, lines 105-118, with auto-install
\* enabled.
WinActivate(w) ==
  /\ wpc[w] = "off"
  /\ LET m == getManifest(mfile)
         skillExists == skillFiles[w]["SKILL.md"] # 0
     IN wpc' = [wpc EXCEPT ![w] =
                  IF NeedsInstall(skillExists, ExtensionVersionOf(m), 1)
                    THEN "copy" ELSE "active"]
  /\ UNCHANGED <<wread, lifeVars, probeVars, cmdVars>>

\* removeOldSkillFiles and installSkillFiles up to line 65 in that window:
\* the old files are removed and both files are copied from the bundle.
WinCopy(w) ==
  /\ wpc[w] = "copy"
  /\ wpc' = [wpc EXCEPT ![w] = "read"]
  /\ skillFiles' = [skillFiles EXCEPT ![w] = [n \in FileNames |-> 1]]
  /\ dirs' = [dirs EXCEPT ![w] = TRUE]
  /\ UNCHANGED <<wread, probeVars, cmdVars>>
  /\ UNCHANGED <<mfile, mdir, other, reqDoc, apc, aws, aver, autoInstallSkills,
                 cleanupOnDeactivate, lastRead, readKind, raised, didInstall,
                 attempts, old, fresh>>

\* installSkillFiles, line 68: const manifest = getManifest().
WinRead(w) ==
  /\ wpc[w] = "read"
  /\ wpc' = [wpc EXCEPT ![w] = "write"]
  /\ wread' = [wread EXCEPT ![w] = getManifest(mfile)]
  /\ UNCHANGED <<lifeVars, probeVars, cmdVars>>

\* installSkillFiles, lines 69-73: the value read is updated and saved.
WinWrite(w) ==
  /\ wpc[w] = "write"
  /\ wpc' = [wpc EXCEPT ![w] = "active"]
  /\ wread' = [wread EXCEPT ![w] = NoRead]
  /\ mfile' = ManifestFile("valid", AddPath(wread[w].paths, DestDir(w)), 1)
  /\ mdir' = TRUE
  /\ UNCHANGED <<probeVars, cmdVars>>
  /\ UNCHANGED <<skillFiles, dirs, other, reqDoc, apc, aws, aver,
                 autoInstallSkills, cleanupOnDeactivate, lastRead, readKind,
                 raised, didInstall, attempts, old, fresh>>

\* deactivate of that window, lines 540-611, with cleanup enabled and no
\* deletion failing.
WinDeactivate(w) ==
  /\ wpc[w] = "active"
  /\ wpc' = [wpc EXCEPT ![w] = "off"]
  /\ LET m == getManifest(mfile)
         st == TeardownPaths([files |-> skillFiles, dirs |-> dirs,
                              req |-> reqDoc, reached |-> {}], m.paths, {})
     IN /\ skillFiles' = st.files
        /\ dirs' = st.dirs
        /\ reqDoc' = st.req
        /\ mfile' = ManifestFile("absent", <<>>, NoVersion)
        /\ mdir' = FALSE
  /\ UNCHANGED <<wread, probeVars, cmdVars>>
  /\ UNCHANGED <<other, apc, aws, aver, autoInstallSkills, cleanupOnDeactivate,
                 lastRead, readKind, raised, didInstall, attempts, old, fresh>>

LifeNext ==
  \/ \E w \in Workspaces \cup {NoWs}, v \in Versions, auto \in BOOLEAN :
       Activate(w, v, auto)
  \/ RemoveOld
  \/ InstallCopySkill
  \/ InstallCopyGuide
  \/ InstallManifest
  \/ \E enabled \in BOOLEAN : Deactivate(enabled)
  \/ Teardown

\* ----------------------------------------------------------------------
\* Specifications
\* ----------------------------------------------------------------------

\* The lifecycle from a file system whose manifest is absent, unreadable or
\* unparseable; the manifests the extension writes itself arise by install.
Init ==
  /\ FsInit(OwnKinds)
  /\ InstanceOff
  /\ outcome = [i \in 1..NumConfigs |-> FALSE]
  /\ ProbeIdle
  /\ DefaultSettings
  /\ WindowsOff
  /\ CmdIdle

Next == LifeNext

Spec == Init /\ [][Next]_vars

\* The lifecycle from any manifest file content, those included that parse
\* as JSON but are not shaped as a manifest.
InitAnyManifest ==
  /\ FsInit(OwnKinds \cup ForeignKinds)
  /\ InstanceOff
  /\ outcome = [i \in 1..NumConfigs |-> FALSE]
  /\ ProbeIdle
  /\ DefaultSettings
  /\ WindowsOff
  /\ CmdIdle

SpecAnyManifest == InitAnyManifest /\ [][Next]_vars

\* The lifecycle with the uninstall hook: the extension is uninstalled at
\* some point at which it does not run, and the hook cleans up.
UninstallNext ==
  \/ LifeNext
  \/ Uninstall

SpecUninstall == Init /\ [][UninstallNext]_vars

\* An instance that activated in workspace w (NoWs: no folder open) with
\* auto-install disabled, so that no skill file and no manifest exists.
InstanceActive(w) ==
  /\ mfile = ManifestFile("absent", <<>>, NoVersion)
  /\ mdir = FALSE
  /\ skillFiles = [x \in Workspaces |-> [n \in FileNames |-> 0]]
  /\ dirs = [x \in Workspaces |-> FALSE]
  /\ other = [x \in Workspaces |-> FALSE]
  /\ reqDoc = [x \in Workspaces |-> FALSE]
  /\ apc = "active"
  /\ aws = w
  /\ aver = 1
  /\ autoInstallSkills = FALSE
  /\ cleanupOnDeactivate = TRUE
  /\ lastRead = NoRead
  /\ readKind = "none"
  /\ raised = "none"
  /\ didInstall = FALSE
  /\ attempts = {}
  /\ old = {}
  /\ fresh = {}

\* One invocation of createReviewRequestFile under every pattern of
\* candidate outcomes, in an activated instance: a command with no prompt
\* has reached its call of createReviewRequestFile.
ProbeInit ==
  /\ outcome \in [1..NumConfigs -> BOOLEAN]
  /\ ProbeIdle
  /\ DefaultSettings
  /\ WindowsOff
  /\ InstanceActive(1)
  /\ cmd = "staged"
  /\ cpc = "create"
  /\ hasEditor = TRUE
  /\ isRepo = TRUE
  /\ refs = {"HEAD"}
  /\ diffBaseBranch = "auto"
  /\ answer = "none"
  /\ errors = 0
  /\ baseSha = "none"
  /\ cmdRaised = FALSE

ProbeNext ==
  \/ ProbeStart
  \/ \E step \in {"write", "open", "show"} : ProbeStartFails(step)
  \/ ProbeStep
  \/ ProbeFinish
  \/ CleanupTimer

\* The outcome patterns of the candidates used with the commands: all throw,
\* only the openers succeed, all succeed.
CommandPatterns ==
  { [i \in 1..NumConfigs |-> FALSE],
    [i \in 1..NumConfigs |-> IsOpener[i]],
    [i \in 1..NumConfigs |-> TRUE] }

\* One invocation of one of the four commands in an activated instance, with
\* or without a workspace folder.
CommandInit ==
  /\ outcome \in CommandPatterns
  /\ ProbeIdle
  /\ DefaultSettings
  /\ WindowsOff
  /\ CmdIdle
  /\ \E w \in Workspaces \cup {NoWs} : InstanceActive(w)

CommandNext ==
  \/ \E c \in Commands, editor \in BOOLEAN, repo \in BOOLEAN,
        resolves \in RefSets, base \in BaseSettings :
       Invoke(c, editor, repo, resolves, base)
  \/ \E choice \in {"Initialize Git", "undefined"}, initFails \in BOOLEAN :
       AskInit(choice, initFails)
  \/ \E ans \in {"undefined", "empty", "text"} : Prompt(ans)
  \/ ProbeStart
  \/ \E step \in {"write", "open", "show"} : ProbeStartFails(step)
  \/ ProbeStep
  \/ ProbeFinish
  \/ CleanupTimer

SpecCommands == CommandInit /\ [][CommandNext]_vars

\* The windows install concurrently; none is closed.
InstallsNext ==
  \/ \E w \in Workspaces : WinActivate(w)
  \/ \E w \in Workspaces : WinCopy(w)
  \/ \E w \in Workspaces : WinRead(w)
  \/ \E w \in Workspaces : WinWrite(w)

SpecInstalls == Init /\ [][InstallsNext]_vars

\* The windows are opened and closed independently.
WindowsNext ==
  \/ InstallsNext
  \/ \E w \in Workspaces : WinDeactivate(w)

SpecWindows == Init /\ [][WindowsNext]_vars

\* The values of the setting severityThreshold: the five levels of
\* package.json and two values that are none of them.
Thresholds == {"info", "low", "medium", "high", "critical", "LOW", "warning"}

\* The values of the setting additionalRulesPath.
RuleSettings == {"unset", "missing", "present"}

\* An instance that activated in workspace w with auto-install enabled, no
\* manifest and an empty skill directory, and installed from a bundle that
\* held the files of present.
InstanceInstalled(w, present) ==
  /\ mfile = ManifestFile("valid", <<DestDir(w)>>, 1)
  /\ mdir = TRUE
  /\ skillFiles = [x \in Workspaces |->
                     [n \in FileNames |-> IF x = w /\ n \in present THEN 1 ELSE 0]]
  /\ dirs = [x \in Workspaces |-> x = w]
  /\ other = [x \in Workspaces |-> FALSE]
  /\ reqDoc = [x \in Workspaces |-> FALSE]
  /\ apc = "active"
  /\ aws = w
  /\ aver = 1
  /\ autoInstallSkills = TRUE
  /\ cleanupOnDeactivate = TRUE
  /\ lastRead = EmptyManifest
  /\ readKind = "absent"
  /\ raised = "none"
  /\ didInstall = TRUE
  /\ attempts = {}
  /\ old = {}
  /\ fresh = {}

\* One invocation of createReviewRequestFile by "review active file" under
\* every setting of the severity threshold and the additional rules, with
\* or without a workspace folder, with auto-install disabled or after an
\* install from a complete or incomplete bundle.
RequestInit ==
  /\ outcome \in CommandPatterns
  /\ ProbeIdle
  /\ severityThreshold \in Thresholds
  /\ additionalRules \in RuleSettings
  /\ WindowsOff
  /\ \/ \E w \in Workspaces \cup {NoWs} : InstanceActive(w)
     \/ \E w \in Workspaces, present \in SUBSET FileNames :
          InstanceInstalled(w, present)
  /\ cmd = "activeFile"
  /\ cpc = "create"
  /\ hasEditor = TRUE
  /\ isRepo = FALSE
  /\ refs = {}
  /\ diffBaseBranch = "auto"
  /\ answer = "none"
  /\ errors = 0
  /\ baseSha = "none"
  /\ cmdRaised = FALSE

SpecRequest == RequestInit /\ [][ProbeNext]_vars

\* Review commands of one workspace that follow each other before the
\* cleanup timers have fired.
OverlapInit ==
  /\ outcome \in CommandPatterns
  /\ ProbeIdle
  /\ DefaultSettings
  /\ WindowsOff
  /\ InstanceActive(1)
  /\ cmd = "staged"
  /\ cpc = "create"
  /\ hasEditor = TRUE
  /\ isRepo = TRUE
  /\ refs = {"HEAD"}
  /\ diffBaseBranch = "auto"
  /\ answer = "none"
  /\ errors = 0
  /\ baseSha = "none"
  /\ cmdRaised = FALSE

OverlapNext ==
  \/ ProbeNext
  \/ InvokeAgain

SpecOverlap == OverlapInit /\ [][OverlapNext]_vars

SpecProbe == ProbeInit /\ [][ProbeNext]_vars

\* ----------------------------------------------------------------------
\* Properties of the delivery probe
\* ----------------------------------------------------------------------

\* Candidate i delivers the prompt: its invocation succeeds and it is not an
\* opener.
Delivers(i) == outcome[i] /\ ~IsOpener[i]

\* The candidate at which the probe is expected to end.
StopAt ==
  IF \E i \in 1..NumConfigs : Delivers(i)
    THEN CHOOSE i \in 1..NumConfigs :
           Delivers(i) /\ \A j \in 1..(i - 1) : ~Delivers(j)
    ELSE NumConfigs

OutcomeEntries == SelectSeq(plog, LAMBDA e : e[1] \in {"SUCCESS", "FAILED"})

\* C1: when the only candidates whose invocation succeeds are openers and
\* every other candidate throws, a finished probe has reported failure and
\* the prompt was copied to the clipboard exactly once.
C1_OnlyOpenersReportsFailure ==
  (ppc = "done" /\ \A i \in 1..NumConfigs : outcome[i] => IsOpener[i])
    => (success = "false" /\ clipboard = 1)

\* C2: once a candidate that is not an opener has been invoked successfully
\* it is the last candidate invoked, the probe has returned success, and the
\* prompt is never copied to the clipboard.
C2_StopsAtFirstDelivery ==
  \A k \in 1..Len(invoked) :
    Delivers(invoked[k]) =>
      /\ k = Len(invoked)
      /\ ppc \in {"returned", "done"}
      /\ success = "true"
      /\ clipboard = 0
      /\ notice \in {"none", "submitted"}
      /\ (ppc = "done" => notice = "submitted")

C2_Witness ==
  /\ ppc = "done"
  /\ Len(invoked) < NumConfigs
  /\ Delivers(invoked[Len(invoked)])
  /\ \E j \in (Len(invoked) + 1)..NumConfigs : outcome[j]

\* C3: candidates are invoked in list order, each at most once; the log holds
\* exactly one outcome entry for each invoked candidate, SUCCESS or FAILED as
\* its invocation went; the probe ends exactly at the first non-opener
\* success, or at the last candidate when there is none.
C3_LogCoversPrefix ==
  /\ invoked = [k \in 1..Len(invoked) |-> k]
  /\ OutcomeEntries =
       [k \in 1..Len(invoked) |->
          <<IF outcome[k] THEN "SUCCESS" ELSE "FAILED", k>>]
  /\ Len(invoked) <= StopAt
  /\ (ppc = "loop" => Len(invoked) = pidx - 1 /\ Len(invoked) < StopAt)
  /\ (ppc \in {"returned", "done"} => Len(invoked) = StopAt)

C3_Witness ==
  /\ ppc = "done"
  /\ StopAt < NumConfigs
  /\ Len(OutcomeEntries) = StopAt
  /\ \E j \in 1..(StopAt - 1) : ~outcome[j]
  /\ \E j \in 1..(StopAt - 1) : outcome[j] /\ IsOpener[j]

\* ----------------------------------------------------------------------
\* Properties of the skill-file lifecycle
\* ----------------------------------------------------------------------

\* C4: a teardown with cleanup enabled never raises, whatever the manifest
\* file holds and whichever deletions fail: it reaches the deletion of both
\* files, the directory and the request document of every recorded
\* directory, and reaches the deletion of the manifest file.
C4_TeardownBestEffort ==
  [][apc = "teardown" =>
       /\ raised' = "none"
       /\ Target("manifest", NoWs, "") \in attempts'
       /\ (mfile.kind = "valid" =>
             \A k \in 1..Len(mfile.paths) : DirTargets(mfile.paths[k]) \subseteq attempts')
       /\ (mfile' = mfile \/ mfile'.kind = "absent")]_vars

\* C5: deactivate with cleanupOnDeactivate disabled returns at once and
\* leaves the manifest, the skill directories, their files and the request
\* documents as they were.
C5_DisabledChangesNothing ==
  [][(apc = "active" /\ ~cleanupOnDeactivate') =>
       (apc' = "off" /\ UNCHANGED fsVars)]_vars

C5_Witness ==
  /\ apc = "off"
  /\ ~cleanupOnDeactivate
  /\ mfile.kind = "valid"
  /\ \E w \in Workspaces :
       /\ PathsInclude(mfile.paths, DestDir(w))
       /\ skillFiles[w]["SKILL.md"] # 0
       /\ skillFiles[w]["code-review.md"] # 0
       /\ reqDoc[w]

\* C6: whatever the manifest file holds that is not a manifest (absent,
\* unreadable, not JSON, JSON of another shape), getManifest returns the
\* empty default and no handler raises a TypeError on its result.
C6_ReadYieldsDefault ==
  /\ (readKind \in OwnKinds \cup ForeignKinds => lastRead = EmptyManifest)
  /\ raised # "TypeError"

NoDuplicates(paths) ==
  \A i, j \in 1..Len(paths) : paths[i] = paths[j] => i = j

Occurrences(paths, d) == Cardinality({k \in 1..Len(paths) : paths[k] = d})

\* C7: the path list of the manifest on disk never holds an entry twice, and
\* once install has returned in an activation the list holds that
\* workspace's destination directory exactly once.
C7_NoDuplicatePaths ==
  /\ (mfile.kind = "valid" => NoDuplicates(mfile.paths))
  /\ (apc = "active" /\ didInstall =>
        /\ mfile.kind = "valid"
        /\ Occurrences(mfile.paths, DestDir(aws)) = 1)

\* Install has just returned for a workspace and a version the manifest
\* already recorded.
C7_Witness ==
  /\ apc = "active"
  /\ didInstall
  /\ lastRead.kind = "valid"
  /\ PathsInclude(lastRead.paths, DestDir(aws))
  /\ lastRead.version = aver
  /\ Len(mfile.paths) = NumWorkspaces

\* Files of the destination that were there before this activation's
\* removeOld and are there still, not overwritten by its install.
StaleFiles == {n \in old \ fresh : skillFiles[aws][n] # 0}

\* C8: install copies only after removeOld has returned, and while install
\* runs the destination holds no file from before removeOld.
C8_RemoveOldBeforeInstall ==
  /\ (apc = "removeOld" => fresh = {})
  /\ (apc \in {"copySkill", "copyGuide", "manifest"} => StaleFiles = {})
  /\ (fresh # {} => StaleFiles = {})

C8_Witness ==
  /\ apc = "copyGuide"
  /\ old = FileNames
  /\ fresh = {"SKILL.md"}
  /\ skillFiles[aws]["code-review.md"] = 0

\* C9: once an activation with auto-install enabled has completed, the
\* workspace holds no documentation file of another version.
C9_NoStaleVersionAfterActivation ==
  (apc = "active" /\ autoInstallSkills /\ aws # NoWs) =>
    \A n \in FileNames : skillFiles[aws][n] \in {0, aver}

\* The version the manifest on disk records; '' when it records none.
RecordedVersion == IF mfile.kind = "valid" THEN mfile.version ELSE NoVersion

\* C10: an activation with a workspace open goes on to removeOld and install
\* exactly when auto-install is enabled and SKILL.md is missing or the
\* recorded version differs; otherwise it completes without touching the
\* file system. Install is entered only from removeOld, and removeOld is
\* followed by install unless an unlink throws.
C10_InstallDecision ==
  [][/\ (apc = "off" /\ apc' # "off" /\ aws' # NoWs) =>
          LET cond == /\ autoInstallSkills'
                      /\ \/ skillFiles[aws']["SKILL.md"] = 0
                         \/ RecordedVersion # aver'
          IN /\ (apc' = "removeOld") <=> cond
             /\ (~cond => apc' = "active")
             /\ UNCHANGED fsVars
     /\ (apc = "removeOld" => apc' = "copySkill" \/ raised' = "unlink")
     /\ (apc # "copySkill" /\ apc' = "copySkill" => apc = "removeOld")
     /\ (didInstall' /\ ~didInstall => apc = "manifest")]_vars

\* An activation that found the workspace up to date and skipped install.
C10_Witness ==
  /\ apc = "active"
  /\ autoInstallSkills
  /\ aws # NoWs
  /\ ~didInstall
  /\ skillFiles[aws]["SKILL.md"] = aver
  /\ RecordedVersion = aver

\* C11: when the manifest file is absent and the bundle held both files, the
\* install of an activation ends with the skill directory existing, both
\* files holding the current version, and a manifest on disk whose path list
\* is exactly that directory and whose version is the current one.
C11_FirstInstall ==
  [][/\ (apc = "off" /\ apc' # "off" /\ mfile.kind = "absent"
           /\ aws' # NoWs /\ autoInstallSkills') => apc' = "removeOld"
     /\ (apc = "manifest" /\ mfile.kind = "absent" /\ fresh = FileNames) =>
           /\ apc' = "active"
           /\ didInstall'
           /\ dirs'[aws]
           /\ \A n \in FileNames : skillFiles'[aws][n] = aver
           /\ mfile' = [kind |-> "valid", paths |-> <<DestDir(aws)>>,
                        version |-> aver]
           /\ mdir']_vars

C11_Witness ==
  /\ apc = "active"
  /\ didInstall
  /\ readKind = "absent"
  /\ lastRead = EmptyManifest
  /\ dirs[aws]
  /\ \A n \in FileNames : skillFiles[aws][n] = aver
  /\ mfile.paths = <<DestDir(aws)>>
  /\ mfile.version = aver

\* The entries of a manifest file's path list; none when it has no list.
Recorded(f) == IF f.kind = "valid" THEN {f.paths[k] : k \in 1..Len(f.paths)} ELSE {}

\* C12: outside teardown no step drops an entry of the manifest's path list;
\* an entry appears only when install saves the manifest, and it is that
\* install's destination directory, which exists; every install that returns
\* has its destination in the list.
C12_PathsOnlyGrow ==
  [][/\ (apc # "teardown" => Recorded(mfile) \subseteq Recorded(mfile'))
     /\ (Recorded(mfile') \ Recorded(mfile) # {} =>
           /\ apc = "manifest"
           /\ Recorded(mfile') \ Recorded(mfile) = {DestDir(aws)}
           /\ dirs[aws])
     /\ (apc = "manifest" /\ apc' = "active" => DestDir(aws) \in Recorded(mfile'))]_vars

\* A second workspace has just been recorded next to the first.
C12_Witness ==
  /\ apc = "active"
  /\ didInstall
  /\ lastRead.kind = "valid"
  /\ Len(lastRead.paths) = 1
  /\ ~PathsInclude(lastRead.paths, DestDir(aws))
  /\ Recorded(mfile) = Recorded(lastRead) \cup {DestDir(aws)}

\* C20: the activation that follows a teardown with cleanup enabled, in a
\* workspace with auto-install enabled, decides to install again, whichever
\* deletions of the teardown failed.
C20_ReinstallAfterTeardown ==
  [][(/\ apc = "off"
      /\ cleanupOnDeactivate
      /\ attempts # {}
      /\ apc' # "off"
      /\ aws' # NoWs
      /\ autoInstallSkills') => apc' = "removeOld"]_vars

\* C19: the uninstall hook reaches the deletion of both files, the directory
\* and the request document of every recorded directory, and the deletion of
\* the manifest file, whichever deletions fail.
C19_UninstallBestEffort ==
  [][(apc = "off" /\ apc' = "uninstalled" /\ mfile.kind = "valid") =>
       /\ \A k \in 1..Len(mfile.paths) : DirTargets(mfile.paths[k]) \subseteq attempts'
       /\ Target("manifest", NoWs, "") \in attempts']_vars

\* ----------------------------------------------------------------------
\* Properties of the review commands
\* ----------------------------------------------------------------------

\* The refs reviewChanges is expected to try, in order.
BaseCandidates ==
  <<IF diffBaseBranch = "auto" THEN "origin/branch" ELSE diffBaseBranch, "HEAD~1">>

\* C13: once "review all changes" has passed its base resolution, the base
\* is the first of <<origin/<branch> or the configured ref, HEAD~1>> that
\* resolves, and the head SHA if neither does.
C13_BaseFallback ==
  (cmd = "changes" /\ cpc \in {"prompt", "create"}) =>
    /\ baseSha # "none"
    /\ \/ /\ BaseCandidates[1] \in refs
          /\ baseSha = BaseCandidates[1]
       \/ /\ BaseCandidates[1] \notin refs
          /\ BaseCandidates[2] \in refs
          /\ baseSha = BaseCandidates[2]
       \/ /\ BaseCandidates[1] \notin refs
          /\ BaseCandidates[2] \notin refs
          /\ baseSha = HeadSha

C13_Witness ==
  /\ cmd = "changes"
  /\ cpc = "prompt"
  /\ diffBaseBranch = "auto"
  /\ refs = {"HEAD"}
  /\ baseSha = HeadSha

\* The precondition of the invoked command, as the specification states it,
\* fails in the current environment.
Unmet(c) ==
  \/ c = "activeFile" /\ ~hasEditor
  \/ c \in {"changes", "byCommit", "staged"} /\ aws = NoWs
  \/ c \in {"changes", "staged"} /\ ~isRepo

\* C14: a command invoked with an unmet precondition shows one error, and
\* neither that step nor any later step of the command writes the request
\* document, invokes a candidate, writes the clipboard or schedules a timer.
C14_UnmetPreconditionReportsError ==
  [][((cmd = "none" /\ cmd' # "none" /\ Unmet(cmd)') \/ (cmd # "none" /\ Unmet(cmd))) =>
       /\ errors' = 1
       /\ cpc' \in {"askInit", "ended"}
       /\ ~reqFile'
       /\ invoked' = <<>>
       /\ clipboard' = 0
       /\ timers' = 0 /\ fired' = 0
       /\ ProbeIdle']_vars

C14_Witness ==
  /\ cmd = "changes"
  /\ aws # NoWs
  /\ ~isRepo
  /\ answer = "undefined"
  /\ cpc = "ended"
  /\ errors = 1
  /\ ProbeIdle

\* C15: when the input box of "review all changes" or "review by commit"
\* is dismissed the command ends there: nothing of the delivery has
\* happened, the files and the manifest are unchanged, and no later step of
\* the command follows.
C15_DismissedPromptNoEffect ==
  [][/\ (cpc = "prompt" /\ answer' = "undefined") =>
          /\ cpc' = "ended"
          /\ ProbeIdle'
          /\ errors' = errors
          /\ UNCHANGED <<fsVars, probeVars>>
     /\ (cpc = "ended" /\ cmd \in {"changes", "byCommit"}
           /\ answer = "undefined" /\ ~Unmet(cmd)) => UNCHANGED vars]_vars

C15_Witness ==
  /\ cmd = "byCommit"
  /\ answer = "undefined"
  /\ cpc = "ended"
  /\ errors = 0
  /\ ~cmdRaised
  /\ ProbeIdle

C17_WrittenDocumentGetsTimer ==
  (cpc = "ended" /\ reqFile) => timers + fired >= 1

\* The two outcomes of a delivery.
FailureOutcome == channelShown /\ clipboard = 1 /\ notice = "paste"
SuccessOutcome == ~channelShown /\ clipboard = 0 /\ notice = "submitted"

\* C18: before the delivery has finished nothing is shown or copied; once it
\* has, exactly one of the failure and the success outcome has occurred, and
\* it is the failure outcome if every candidate threw.
C18_ExactlyOneOutcome ==
  /\ ppc # "done" => (~channelShown /\ clipboard = 0 /\ notice = "none")
  /\ ppc = "done" =>
       /\ FailureOutcome \/ SuccessOutcome
       /\ ~(FailureOutcome /\ SuccessOutcome)
       /\ (\A i \in 1..NumConfigs : ~outcome[i]) => FailureOutcome

C18_Witness ==
  /\ ppc = "done"
  /\ Len(invoked) = NumConfigs
  /\ \A i \in 1..NumConfigs : ~outcome[i]
  /\ FailureOutcome

\* A step in which a git command run by a handler fails: git rev-parse HEAD
\* of "review all changes" or "review staged changes" in a repository whose
\* HEAD does not resolve, or the git init the user asked for.
GitFailureStep ==
  \/ /\ cmd = "none"
     /\ cmd' \in {"changes", "staged"}
     /\ aws # NoWs /\ isRepo'
     /\ "HEAD" \notin refs'
  \/ /\ cpc = "askInit"
     /\ answer' = "Initialize Git"
     /\ ~isRepo'

\* C21: a step in which a git command fails shows exactly one more error,
\* lets no exception leave the handler, ends the command and writes no
\* request document.
C21_GitFailureIsCaught ==
  [][GitFailureStep =>
       /\ ~cmdRaised'
       /\ errors' = errors + 1
       /\ cpc' = "ended"
       /\ ProbeIdle']_vars

\* ----------------------------------------------------------------------
\* Properties of the request document and the prompt
\* ----------------------------------------------------------------------

\* C22: a written request document carries a severity block exactly if the
\* configured threshold is low, medium, high or critical, and the block
\* names that threshold.
C22_SeverityBlock ==
  docSeverity # "unwritten" =>
    /\ docSeverity # "" <=> severityThreshold \in {"low", "medium", "high", "critical"}
    /\ docSeverity # "" => docSeverity = severityThreshold

C22_Witness ==
  /\ ppc = "done"
  /\ severityThreshold = "critical"
  /\ docSeverity = "critical"

\* C25: every file the prompt names existed when the prompt was built.
C25_PromptPathsExist ==
  promptMissing = {}

\* C24: the timers have the same delay, so the k-th callback to run is the
\* one of invocation k. When it runs while the request file was written
\* last by a later invocation, the file stays on disk and its tab stays
\* open.
C24_EarlierTimerSparesLaterDocument ==
  [][(fired' = fired + 1 /\ writer > fired + 1 /\ reqFile) =>
       (reqFile' /\ tabOpen' = tabOpen)]_vars

\* ----------------------------------------------------------------------
\* Properties of several windows
\* ----------------------------------------------------------------------

\* C23: once the installs of all windows have finished, the manifest
\* records the skill directory of each of them.
C23_BothPathsRecorded ==
  (\A w \in Workspaces : wpc[w] = "active") =>
    \A w \in Workspaces : DestDir(w) \in Recorded(mfile)

\* C26: while the instance of a window stays active, the skill files of its
\* workspace stay as they are.
C26_ActiveWorkspaceKeepsFiles ==
  [][\A w \in Workspaces :
       (wpc[w] = "active" /\ wpc'[w] = "active") =>
         skillFiles'[w] = skillFiles[w]]_vars

\* The files, directories, request documents, manifest file and manifest
\* directory of a result of TeardownFs or UninstallFs.
FsOf(r) == <<r.files, r.dirs, r.req, r.mfile, r.mdir>>

\* C27: from every file system the lifecycle can leave behind while the
\* extension does not run, the uninstall hook and a teardown with cleanup
\* enabled, both without a failing deletion, leave the same file system.
C27_UninstallEqualsTeardown ==
  apc = "off" =>
    FsOf(UninstallFs({})) = FsOf(TeardownFs(getManifest(mfile), {}))

====
